---- MODULE Spec2Model ----
(***************************************************************************)
(* A model of setup_project.py, the interactive initializer of the Python  *)
(* project template: the prompts of setup_project(), the derivation of the *)
(* module and class identifiers, the resolution of the target directory,   *)
(* the tree copy, fix_src_layout, rename_paths, the content-substitution   *)
(* walk with replace_in_file, and the virtual-environment bootstrap.       *)
(*                                                                         *)
(* Strings are sequences of one-character strings, so that str.replace,    *)
(* str.strip, str.lower, re.sub and Path.suffix are computed character by  *)
(* character.  A path is a sequence of names (each name a string); the     *)
(* filesystem is a function from the existing paths to their nodes.        *)
(***************************************************************************)
EXTENDS Naturals, Sequences, FiniteSets, TLC

VARIABLES
    pc,                   \* position of setup_project() in its body
    project_name,         \* line 83
    module_name,          \* lines 102-103
    project_description,  \* lines 105-107
    author_name,          \* lines 109-111
    author_email,         \* lines 115-124
    github_username,      \* lines 126-128
    main_class,           \* lines 131-133
    replacements,         \* lines 136-144, in dict (insertion) order
    confirm,              \* line 168
    cwd,                  \* Path(".").resolve()
    target_dir,           \* lines 177-180, resolved
    confirm_current,      \* lines 186-192
    fs,                   \* the filesystem
    fs_renamed,           \* the filesystem when rename_paths returned
    todo,                 \* what is left of the walk in progress
    visited,              \* the paths rename_paths has processed
    warned,               \* the files replace_in_file printed a warning for
    activate_cmd,         \* lines 262/265: the local is unbound before them
    status                \* how the process ended: exit code and cause

vars == <<pc, project_name, module_name, project_description, author_name,
          author_email, github_username, main_class, replacements, confirm,
          cwd, target_dir, confirm_current, fs, fs_renamed,
          todo, visited, warned, activate_cmd, status>>

----------------------------------------------------------------------------
(* Bounds of the model.                                                    *)

\* Longest project name the name-collection specification enumerates.
MaxNameLen == 4

\* Most per-file I/O errors injected into one content-substitution walk.
MaxFaults == 1

----------------------------------------------------------------------------
(* Strings.                                                                *)

LowerSeq == <<"a","b","c","d","e","f","g","h","i","j","k","l","m",
              "n","o","p","q","r","s","t","u","v","w","x","y","z">>
UpperSeq == <<"A","B","C","D","E","F","G","H","I","J","K","L","M",
              "N","O","P","Q","R","S","T","U","V","W","X","Y","Z">>
DigitSeq == <<"0","1","2","3","4","5","6","7","8","9">>

Range(s) == { s[i] : i \in DOMAIN s }

Lowercase == Range(LowerSeq)
Uppercase == Range(UpperSeq)
Digits == Range(DigitSeq)
Letters == Lowercase \cup Uppercase
Alnum == Letters \cup Digits
Whitespace == {" "}

\* str.lower and str.upper on one character
lower_char(c) ==
    IF c \in Uppercase
    THEN LowerSeq[CHOOSE i \in DOMAIN UpperSeq : UpperSeq[i] = c]
    ELSE c

upper_char(c) ==
    IF c \in Lowercase
    THEN UpperSeq[CHOOSE i \in DOMAIN LowerSeq : LowerSeq[i] = c]
    ELSE c

\* str.lower
lower(s) == [i \in DOMAIN s |-> lower_char(s[i])]

\* str.strip(): leading and trailing whitespace removed
RECURSIVE lstrip(_, _)
lstrip(s, chars) ==
    IF s # <<>> /\ Head(s) \in chars THEN lstrip(Tail(s), chars) ELSE s

RECURSIVE rstrip(_, _)
rstrip(s, chars) ==
    IF s # <<>> /\ s[Len(s)] \in chars
    THEN rstrip(SubSeq(s, 1, Len(s) - 1), chars)
    ELSE s

strip(s, chars) == rstrip(lstrip(s, chars), chars)

startswith(s, prefix) ==
    Len(prefix) <= Len(s) /\ SubSeq(s, 1, Len(prefix)) = prefix

\* `sub in s`
contains(s, sub) ==
    \E i \in 1..(Len(s) + 1) :
        i + Len(sub) - 1 <= Len(s) /\ SubSeq(s, i, i + Len(sub) - 1) = sub

\* where sub occurs in s
occurrences(s, sub) ==
    { i \in 1..(Len(s) + 1) :
          i + Len(sub) - 1 <= Len(s) /\ SubSeq(s, i, i + Len(sub) - 1) = sub }

\* str.replace(old, new) for a non-empty old: the leftmost occurrence is
\* replaced, then the ones in what follows it (none overlaps an earlier one)
RECURSIVE replace(_, _, _)
replace(s, old, new) ==
    IF occurrences(s, old) = {} THEN s
    ELSE LET i == CHOOSE k \in occurrences(s, old) :
                      \A j \in occurrences(s, old) : k <= j
         IN SubSeq(s, 1, i - 1) \o new
                \o replace(SubSeq(s, i + Len(old), Len(s)), old, new)

\* str.split(sep) for a one-character sep
RECURSIVE split(_, _)
split(s, sep) ==
    IF \A i \in DOMAIN s : s[i] # sep THEN <<s>>
    ELSE LET k == CHOOSE i \in DOMAIN s :
                      s[i] = sep /\ \A j \in 1..(i - 1) : s[j] # sep
         IN <<SubSeq(s, 1, k - 1)>> \o split(SubSeq(s, k + 1, Len(s)), sep)

\* str.capitalize(): first character upper-cased, the rest lower-cased
capitalize(s) ==
    [i \in DOMAIN s |-> IF i = 1 THEN upper_char(s[i]) ELSE lower_char(s[i])]

\* "".join(seq of strings)
RECURSIVE join(_)
join(ss) == IF ss = <<>> THEN <<>> ELSE Head(ss) \o join(Tail(ss))

\* every string over the alphabet of length at most n
RECURSIVE StringsUpTo(_, _)
StringsUpTo(alphabet, n) ==
    IF n = 0 THEN {<<>>}
    ELSE LET shorter == StringsUpTo(alphabet, n - 1)
         IN shorter \cup { Append(s, c) : s \in shorter, c \in alphabet }

----------------------------------------------------------------------------
(* Input Collector and Identifier Deriver (lines 16-34, 82-144).           *)

\* re.match(r"^[a-zA-Z0-9][a-zA-Z0-9._-]*[a-zA-Z0-9]$|^[a-zA-Z0-9]$", s);
\* the input was stripped, so "$" has no trailing newline to match before
valid_project_name(s) ==
    \/ /\ Len(s) >= 2
       /\ s[1] \in Alnum
       /\ s[Len(s)] \in Alnum
       /\ \A i \in 2..(Len(s) - 1) : s[i] \in Alnum \cup {".", "_", "-"}
    \/ /\ Len(s) = 1
       /\ s[1] \in Alnum

\* re.sub(r"[^a-zA-Z0-9]", "_", s)
sub_non_alnum(s) == [i \in DOMAIN s |-> IF s[i] \in Alnum THEN s[i] ELSE "_"]

\* re.sub(r"_+", "_", s)
RECURSIVE sub_underscores(_)
sub_underscores(s) ==
    IF Len(s) < 2 THEN s
    ELSE IF s[1] = "_" /\ s[2] = "_" THEN sub_underscores(Tail(s))
         ELSE <<Head(s)>> \o sub_underscores(Tail(s))

\* the mutant of derive_module_name: the run of underscores is not collapsed
derive_module_name_no_collapse(name) ==
    strip(lower(sub_non_alnum(name)), {"_"})

\* lines 102-103
derive_module_name(name) ==
    strip(sub_underscores(lower(sub_non_alnum(name))), {"_"})

DEFAULT_MAIN_CLASS == <<"M","a","i","n","C","l","a","s","s">>

\* lines 131-133
derive_main_class(module) ==
    LET words == split(module, "_")
        joined == join([i \in DOMAIN words |-> capitalize(words[i])])
    IN IF joined = <<>> THEN DEFAULT_MAIN_CLASS ELSE joined

DESCRIPTION_PREFIX ==
    <<"A"," ","P","y","t","h","o","n"," ","p","r","o","j","e","c","t",":"," ">>
DEFAULT_AUTHOR_NAME == <<"Y","o","u","r"," ","N","a","m","e">>
DEFAULT_AUTHOR_EMAIL ==
    <<"y","o","u","r",".","e","m","a","i","l","@",
      "e","x","a","m","p","l","e",".","c","o","m">>
DEFAULT_GITHUB_USERNAME == <<"y","o","u","r","u","s","e","r","n","a","m","e">>

\* the placeholder tokens, the keys of the replacements dictionary
LBRACES == <<"{", "{">>
RBRACES == <<"}", "}">>
TOK_PROJECT_NAME ==
    LBRACES \o <<"P","R","O","J","E","C","T","_","N","A","M","E">> \o RBRACES
TOK_MODULE_NAME ==
    LBRACES \o <<"M","O","D","U","L","E","_","N","A","M","E">> \o RBRACES
TOK_PROJECT_DESCRIPTION ==
    LBRACES \o <<"P","R","O","J","E","C","T","_","D","E","S","C","R","I","P",
                 "T","I","O","N">> \o RBRACES
TOK_AUTHOR_NAME ==
    LBRACES \o <<"A","U","T","H","O","R","_","N","A","M","E">> \o RBRACES
TOK_AUTHOR_EMAIL ==
    LBRACES \o <<"A","U","T","H","O","R","_","E","M","A","I","L">> \o RBRACES
TOK_GITHUB_USERNAME ==
    LBRACES \o <<"G","I","T","H","U","B","_","U","S","E","R","N","A","M","E">>
            \o RBRACES
TOK_MAIN_CLASS ==
    LBRACES \o <<"M","A","I","N","_","C","L","A","S","S">> \o RBRACES

TOKENS == {TOK_PROJECT_NAME, TOK_MODULE_NAME, TOK_PROJECT_DESCRIPTION,
           TOK_AUTHOR_NAME, TOK_AUTHOR_EMAIL, TOK_GITHUB_USERNAME,
           TOK_MAIN_CLASS}

\* lines 136-144: the dictionary, as the sequence of its items in
\* insertion order, the order .items() iterates in
make_replacements(pname, mname, descr, aname, aemail, ghuser, mclass) ==
    << <<TOK_PROJECT_NAME, pname>>,
       <<TOK_MODULE_NAME, mname>>,
       <<TOK_PROJECT_DESCRIPTION, descr>>,
       <<TOK_AUTHOR_NAME, aname>>,
       <<TOK_AUTHOR_EMAIL, aemail>>,
       <<TOK_GITHUB_USERNAME, ghuser>>,
       <<TOK_MAIN_CLASS, mclass>> >>

\* lines 41-42, 57-58, 68-69: every item applied in turn to the running text
RECURSIVE apply_replacements(_, _)
apply_replacements(text, repl) ==
    IF repl = <<>> THEN text
    ELSE apply_replacements(replace(text, Head(repl)[1], Head(repl)[2]),
                            Tail(repl))

EMAIL_VALID == <<"a","@","b",".","i","o">>
EMAIL_NO_DOMAIN == <<"u","s","e","r","@">>

\* email.utils.parseaddr(email)[1] on the addresses the model enters:
\* a bare addr-spec is returned as it is, one without a domain gives ""
parseaddr(email) ==
    IF email = EMAIL_NO_DOMAIN THEN <<>> ELSE email

\* re.match(r"^[a-zA-Z0-9._%+-]+@[a-zA-Z0-9.-]+\.[a-zA-Z]{2,}$", s)
email_pattern(s) ==
    \E at \in DOMAIN s, dot \in DOMAIN s :
        /\ s[at] = "@"
        /\ s[dot] = "."
        /\ 1 < at
        /\ at + 1 < dot
        /\ dot + 2 <= Len(s)
        /\ \A i \in 1..(at - 1) : s[i] \in Alnum \cup {".", "_", "%", "+", "-"}
        /\ \A i \in (at + 1)..(dot - 1) : s[i] \in Alnum \cup {".", "-"}
        /\ \A i \in (dot + 1)..Len(s) : s[i] \in Letters

\* lines 16-34
is_valid_email(email) ==
    IF email = <<>> \/ ~contains(email, <<"@">>) THEN FALSE
    ELSE LET parsed_email == parseaddr(email)
         IN IF parsed_email = <<>> \/ ~contains(parsed_email, <<"@">>)
            THEN FALSE
            ELSE email_pattern(parsed_email)

----------------------------------------------------------------------------
(* The filesystem: pathlib, os and shutil.                                 *)

\* a filesystem is a function from the existing absolute paths to nodes
Dir == [kind |-> "dir", content |-> <<>>]
File(content) == [kind |-> "file", content |-> content]

exists(f, p) == p \in DOMAIN f
is_dir(f, p) == p \in DOMAIN f /\ f[p].kind = "dir"
is_file(f, p) == p \in DOMAIN f /\ f[p].kind = "file"

parent(p) == SubSeq(p, 1, Len(p) - 1)
name_of(p) == p[Len(p)]

\* p is q or an ancestor of q
is_within(q, p) == startswith(q, p)

\* Path.iterdir / os.scandir: the names in directory p
listdir(f, p) ==
    { name_of(q) : q \in { r \in DOMAIN f : Len(r) = Len(p) + 1 /\ is_within(r, p) } }

\* a set as a sequence, in a fixed order
RECURSIVE seq_of(_)
seq_of(S) ==
    IF S = {} THEN <<>>
    ELSE LET x == CHOOSE y \in S : TRUE IN <<x>> \o seq_of(S \ {x})

\* every permutation of a set, as sequences
RECURSIVE permutations(_)
permutations(S) ==
    IF S = {} THEN {<<>>}
    ELSE UNION { { <<x>> \o t : t \in permutations(S \ {x}) } : x \in S }

\* the sequence without the elements outside S
RECURSIVE select(_, _)
select(seq, S) ==
    IF seq = <<>> THEN <<>>
    ELSE IF Head(seq) \in S THEN <<Head(seq)>> \o select(Tail(seq), S)
         ELSE select(Tail(seq), S)

\* the order os.scandir yields directory p in: `order` where it is a listing
\* of p, a fixed order elsewhere
scandir(f, p, order) ==
    IF Range(order) = listdir(f, p) /\ Len(order) = Cardinality(listdir(f, p))
    THEN order
    ELSE seq_of(listdir(f, p))

\* Path.mkdir(parents=True) / os.makedirs: p and its missing ancestors
makedirs(f, p) ==
    LET missing == { SubSeq(p, 1, k) : k \in 0..Len(p) } \ DOMAIN f
    IN [q \in DOMAIN f \cup missing |-> IF q \in missing THEN Dir ELSE f[q]]

\* shutil.rmtree(p)
rmtree(f, p) ==
    [q \in { r \in DOMAIN f : ~is_within(r, p) } |-> f[q]]

\* shutil.copy2(src, dst): dst holds the content of src
copy_file(f, src, dst) ==
    [q \in DOMAIN f \cup {dst} |-> IF q = dst THEN File(f[src].content) ELSE f[q]]

\* shutil.ignore_patterns("setup_project.py", ".git", "__pycache__")
SETUP_SCRIPT == <<"s","e","t","u","p","_","p","r","o","j","e","c","t",".","p","y">>
DOT_GIT == <<".","g","i","t">>
PYCACHE == <<"_","_","p","y","c","a","c","h","e","_","_">>
IGNORE_PATTERNS == {SETUP_SCRIPT, DOT_GIT, PYCACHE}

(* shutil.copytree(src, dst, dirs_exist_ok, ignore): the listing of src is   *)
(* taken first, then dst is created, then the entries are copied one by    *)
(* one in the listing's order, a directory by a recursive copytree that    *)
(* lists it when it is reached.  The result is [err, fs]: copytree goes on *)
(* after an entry's error and raises at the end.                           *)
RECURSIVE copytree(_, _, _, _, _, _)
RECURSIVE copy_entries(_, _, _, _, _, _)
copy_entries(f, src, dst, entries, ignored, dirs_exist_ok) ==
    IF entries = <<>> THEN [err |-> FALSE, fs |-> f]
    ELSE LET n == Head(entries)
             one == IF n \in ignored THEN [err |-> FALSE, fs |-> f]
                    ELSE IF is_dir(f, Append(src, n))
                    THEN copytree(f, Append(src, n), Append(dst, n), <<>>,
                                  ignored, dirs_exist_ok)
                    ELSE IF is_dir(f, Append(dst, n))
                    THEN [err |-> TRUE, fs |-> f]
                    ELSE [err |-> FALSE,
                          fs |-> copy_file(f, Append(src, n), Append(dst, n))]
             rest == copy_entries(one.fs, src, dst, Tail(entries), ignored,
                                  dirs_exist_ok)
         IN [err |-> one.err \/ rest.err, fs |-> rest.fs]

copytree(f, src, dst, order, ignored, dirs_exist_ok) ==
    IF ~is_dir(f, src) THEN [err |-> TRUE, fs |-> f]
    ELSE LET entries == scandir(f, src, order)
         IN IF exists(f, dst) /\ ~(dirs_exist_ok /\ is_dir(f, dst))
            THEN [err |-> TRUE, fs |-> f]
            ELSE copy_entries(makedirs(f, dst), src, dst, entries, ignored,
                              dirs_exist_ok)

\* Path.rename(q) / os.rename: the node p and all below it move to q.
\* The outcomes when q exists differ by platform (POSIX replaces a file or
\* an empty directory, Windows raises FileExistsError): both are outcomes.
move(f, p, q) ==
    LET kept == { r \in DOMAIN f : ~is_within(r, p) /\ ~is_within(r, q) }
        moved == { q \o SubSeq(r, Len(p) + 1, Len(r)) :
                       r \in { x \in DOMAIN f : is_within(x, p) } }
    IN [r \in kept \cup moved |->
            IF r \in moved /\ is_within(r, q)
            THEN f[p \o SubSeq(r, Len(q) + 1, Len(r))]
            ELSE f[r]]

rename_outcomes(f, p, q) ==
    IF ~exists(f, p) THEN {[err |-> TRUE, fs |-> f]}
    ELSE IF ~exists(f, parent(q)) THEN {[err |-> TRUE, fs |-> f]}
    ELSE IF ~exists(f, q) THEN {[err |-> FALSE, fs |-> move(f, p, q)]}
    ELSE IF \/ is_file(f, p) /\ is_file(f, q)
            \/ is_dir(f, p) /\ is_dir(f, q) /\ listdir(f, q) = {}
         THEN {[err |-> FALSE, fs |-> move(f, p, q)], [err |-> TRUE, fs |-> f]}
         ELSE {[err |-> TRUE, fs |-> f]}

\* Path.suffix of a name
suffix(name) ==
    LET dots == { i \in DOMAIN name : name[i] = "." }
    IN IF dots = {} THEN <<>>
       ELSE LET i == CHOOSE d \in dots : \A e \in dots : e <= d
            IN IF 1 < i /\ i < Len(name) THEN SubSeq(name, i, Len(name))
               ELSE <<>>

(* os.walk(top, topdown): the (root, dirs, files) triples it yields.  A    *)
(* directory is listed when the walk enters it; bottom-up, it is yielded   *)
(* after the walks of its subdirectories, whose paths come from that       *)
(* listing.  rename_paths renames only entries of the directory being      *)
(* yielded, so each listing is the one of the tree the walk started on.    *)
RECURSIVE walk(_, _, _)
RECURSIVE walk_all(_, _, _, _)
walk_all(f, top, dirs, topdown) ==
    IF dirs = <<>> THEN <<>>
    ELSE walk(f, Append(top, Head(dirs)), topdown)
             \o walk_all(f, top, Tail(dirs), topdown)

walk(f, top, topdown) ==
    IF ~is_dir(f, top) THEN <<>>
    ELSE LET names == seq_of(listdir(f, top))
             dirs == select(names, { n \in Range(names) : is_dir(f, Append(top, n)) })
             files == select(names, { n \in Range(names) : ~is_dir(f, Append(top, n)) })
             here == <<[root |-> top, dirs |-> dirs, files |-> files]>>
             below == walk_all(f, top, dirs, topdown)
         IN IF topdown THEN here \o below ELSE below \o here

----------------------------------------------------------------------------
(* The world the script runs in.                                           *)

SRC == <<"s","r","c">>
README == <<"R","E","A","D","M","E",".","m","d">>
MAKEFILE == <<"M","a","k","e","f","i","l","e">>
INIT_PY == <<"_","_","i","n","i","t","_","_",".","p","y">>
HEAD_FILE == <<"H","E","A","D">>
KEEP == <<"k","e","e","p",".","m","d">>
VENV == <<"v","e","n","v">>
BIN == <<"b","i","n">>
PYTHON == <<"p","y","t","h","o","n">>

\* Path(__file__).parent, a populated directory and an empty one
TEMPLATE_DIR == << <<"t","p","l">> >>
FULL_DIR == << <<"f","u","l","l">> >>
EMPTY_DIR == << <<"e","m","p","t","y">> >>

\* src/{{MODULE_NAME}}/__init__.py, its lines 2, 13, 17 and 18
INIT_PY_CONTENT ==
    TOK_PROJECT_NAME \o <<" ", "-", " ">> \o TOK_PROJECT_DESCRIPTION \o <<"\n">>
        \o TOK_MAIN_CLASS \o <<"\n">> \o TOK_AUTHOR_NAME \o <<"\n">>
        \o TOK_AUTHOR_EMAIL

README_CONTENT ==
    TOK_PROJECT_NAME \o <<" ">> \o TOK_GITHUB_USERNAME \o <<"/">>
        \o TOK_MODULE_NAME

\* the template tree: the setup script (which holds the tokens as string
\* literals), a version-control directory, a bytecode cache, the module
\* directory named by the module-name token, a README.md and a file whose
\* extension is not on the allow-list
InitialFs ==
    (<<>> :> Dir)
    @@ (TEMPLATE_DIR :> Dir)
    @@ (TEMPLATE_DIR \o <<SETUP_SCRIPT>> :> File(TOK_PROJECT_NAME))
    @@ (TEMPLATE_DIR \o <<DOT_GIT>> :> Dir)
    @@ (TEMPLATE_DIR \o <<DOT_GIT, HEAD_FILE>> :> File(<<"r","e","f">>))
    @@ (TEMPLATE_DIR \o <<README>> :> File(README_CONTENT))
    @@ (TEMPLATE_DIR \o <<MAKEFILE>> :> File(TOK_MODULE_NAME))
    @@ (TEMPLATE_DIR \o <<SRC>> :> Dir)
    @@ (TEMPLATE_DIR \o <<SRC, TOK_MODULE_NAME>> :> Dir)
    @@ (TEMPLATE_DIR \o <<SRC, TOK_MODULE_NAME, INIT_PY>> :> File(INIT_PY_CONTENT))
    @@ (TEMPLATE_DIR \o <<SRC, TOK_MODULE_NAME, PYCACHE>> :> Dir)
    @@ (FULL_DIR :> Dir)
    @@ (FULL_DIR \o <<KEEP>> :> File(TOK_AUTHOR_NAME))
    @@ (EMPTY_DIR :> Dir)

\* what the operator types
DEMO_APP == <<"d","e","m","o","-","a","p","p">>
NAME_ALPHABET == {"a", "B", "1", "-", ".", "_", " "}
ALL_NAMES == StringsUpTo(NAME_ALPHABET, MaxNameLen) \cup {DEMO_APP}
PIPELINE_NAMES == {<<" ","a","-","B"," ">>, <<"-","a">>, <<>>}
DESCRIPTION_INPUTS == {<<>>, TOK_PROJECT_NAME}
AUTHOR_NAME_INPUTS == {<<>>, TOK_GITHUB_USERNAME}
AUTHOR_EMAIL_INPUTS == {<<>>, EMAIL_NO_DOMAIN, EMAIL_VALID}
GITHUB_USERNAME_INPUTS == {<<>>}
YES == <<"y","e","s">>
ANSWERS == {<<>>, <<"y">>, <<"Y","E","S"," ">>, <<"n">>}
TARGET_INPUTS ==
    {<<>>, <<".">>, <<"/">> \o FULL_DIR[1], <<"/">> \o EMPTY_DIR[1],
     <<"/">> \o FULL_DIR[1] \o <<"/">> \o KEEP}

\* Path(s).resolve() with the current directory cwd: no symbolic links
RECURSIVE normalize(_, _)
normalize(base, parts) ==
    IF parts = <<>> THEN base
    ELSE LET part == Head(parts)
         IN IF part = <<>> \/ part = <<".">> THEN normalize(base, Tail(parts))
            ELSE IF part = <<".", ".">>
            THEN normalize(parent(base), Tail(parts))
            ELSE normalize(Append(base, part), Tail(parts))

resolve(dir, s) ==
    normalize(IF s # <<>> /\ s[1] = "/" THEN <<>> ELSE dir, split(s, "/"))

----------------------------------------------------------------------------
(* setup_project(), lines 76-327.                                          *)

metadata == <<project_name, module_name, project_description, author_name,
              author_email, github_username, main_class, replacements>>
walkvars == <<fs_renamed, todo, visited, warned>>

\* the values of the locals before their assignment
UNSET == <<>>
NO_ANSWER == <<"?">>
NO_PATH == << <<>> >>
RUNNING == [code |-> 0, cause |-> "running", at |-> "running"]

Init ==
    /\ pc = "ask_project_name"
    /\ project_name = UNSET
    /\ module_name = UNSET
    /\ project_description = UNSET
    /\ author_name = UNSET
    /\ author_email = UNSET
    /\ github_username = UNSET
    /\ main_class = UNSET
    /\ replacements = <<>>
    /\ confirm = NO_ANSWER
    /\ cwd \in {TEMPLATE_DIR, EMPTY_DIR}
    /\ target_dir = NO_PATH
    /\ confirm_current = NO_ANSWER
    /\ fs = InitialFs
    /\ fs_renamed = <<>>
    /\ todo = <<>>
    /\ visited = {}
    /\ warned = {}
    /\ activate_cmd = "unbound"
    /\ status = RUNNING

\* sys.exit(code); `at` is where the process was
exit(code, cause) ==
    /\ pc' = "exited"
    /\ status' = [code |-> code, cause |-> cause, at |-> pc]

\* an exception nothing catches: the traceback, and exit status 1
uncaught(exception) ==
    /\ pc' = "exited"
    /\ status' = [code |-> 1, cause |-> exception, at |-> pc]

\* line 327: setup_project returns and the interpreter exits with status 0
finish ==
    /\ pc' = "exited"
    /\ status' = [code |-> 0, cause |-> "completed", at |-> pc]

\* lines 82-103: the project-name loop and the module name
AskProjectName(inputs) ==
    /\ pc = "ask_project_name"
    /\ \E typed \in inputs :
         LET name == strip(typed, Whitespace)
         IN IF name = <<>> \/ ~valid_project_name(name)
            THEN UNCHANGED <<pc, project_name, module_name>>
            ELSE /\ project_name' = name
                 /\ module_name' = derive_module_name(name)
                 /\ pc' = "ask_description"
    /\ UNCHANGED <<project_description, author_name, author_email,
                   github_username, main_class, replacements, confirm, cwd,
                   target_dir, confirm_current, fs, walkvars, activate_cmd,
                   status>>

\* lines 105-107
AskDescription ==
    /\ pc = "ask_description"
    /\ \E typed \in DESCRIPTION_INPUTS :
         LET text == strip(typed, Whitespace)
         IN project_description' =
                IF text = <<>> THEN DESCRIPTION_PREFIX \o project_name ELSE text
    /\ pc' = "ask_author_name"
    /\ UNCHANGED <<project_name, module_name, author_name, author_email,
                   github_username, main_class, replacements, confirm, cwd,
                   target_dir, confirm_current, fs, walkvars, activate_cmd,
                   status>>

\* lines 109-111
AskAuthorName ==
    /\ pc = "ask_author_name"
    /\ \E typed \in AUTHOR_NAME_INPUTS :
         LET text == strip(typed, Whitespace)
         IN author_name' = IF text = <<>> THEN DEFAULT_AUTHOR_NAME ELSE text
    /\ pc' = "ask_author_email"
    /\ UNCHANGED <<project_name, module_name, project_description,
                   author_email, github_username, main_class, replacements,
                   confirm, cwd, target_dir, confirm_current, fs, walkvars,
                   activate_cmd, status>>

\* lines 114-124: the email loop
AskAuthorEmail ==
    /\ pc = "ask_author_email"
    /\ \E typed \in AUTHOR_EMAIL_INPUTS :
         LET text == strip(typed, Whitespace)
         IN IF text = <<>>
            THEN author_email' = DEFAULT_AUTHOR_EMAIL /\ pc' = "ask_github_username"
            ELSE IF is_valid_email(text)
            THEN author_email' = text /\ pc' = "ask_github_username"
            ELSE UNCHANGED <<author_email, pc>>
    /\ UNCHANGED <<project_name, module_name, project_description, author_name,
                   github_username, main_class, replacements, confirm, cwd,
                   target_dir, confirm_current, fs, walkvars, activate_cmd,
                   status>>

\* lines 126-144: the GitHub username, the class name, the dictionary
AskGithubUsername ==
    /\ pc = "ask_github_username"
    /\ \E typed \in GITHUB_USERNAME_INPUTS :
         LET text == strip(typed, Whitespace)
             user == IF text = <<>> THEN DEFAULT_GITHUB_USERNAME ELSE text
             class == derive_main_class(module_name)
         IN /\ github_username' = user
            /\ main_class' = class
            /\ replacements' =
                   make_replacements(project_name, module_name,
                                     project_description, author_name,
                                     author_email, user, class)
    /\ pc' = "confirm"
    /\ UNCHANGED <<project_name, module_name, project_description, author_name,
                   author_email, confirm, cwd, target_dir, confirm_current, fs,
                   walkvars, activate_cmd, status>>

\* the mutant of setup_confirmed: the answer is not looked at
setup_confirmed_always(answer) == TRUE

\* line 169: confirm in ["y", "yes"]
setup_confirmed(answer) == answer \in {<<"y">>, YES}

\* lines 160-171: the summary and its confirmation
ConfirmSetup ==
    /\ pc = "confirm"
    /\ \E typed \in ANSWERS :
         LET answer == lower(strip(typed, Whitespace))
         IN /\ confirm' = answer
            /\ IF setup_confirmed(answer)
               THEN pc' = "ask_target_dir" /\ UNCHANGED status
               ELSE exit(0, "cancelled")
    /\ UNCHANGED <<metadata, cwd, target_dir, confirm_current, fs, walkvars,
                   activate_cmd>>

\* lines 174-183: the target directory, and whether it is the current one
AskTargetDir ==
    /\ pc = "ask_target_dir"
    /\ \E typed \in TARGET_INPUTS :
         LET target_dir_input == strip(typed, Whitespace)
             path == IF target_dir_input = <<>>
                     THEN resolve(cwd, <<".", "/">> \o project_name)
                     ELSE resolve(cwd, target_dir_input)
         IN /\ target_dir' = path
            /\ pc' = IF path = resolve(cwd, <<".">>)
                     THEN "confirm_current" ELSE "check_target"
    /\ UNCHANGED <<metadata, confirm, cwd, confirm_current, fs, walkvars,
                   activate_cmd, status>>

\* line 193: confirm_current == "yes"
current_dir_confirmed(answer) == answer = YES

\* lines 184-197: the confirmation of a run in the current directory
ConfirmCurrentDir ==
    /\ pc = "confirm_current"
    /\ \E typed \in ANSWERS :
         LET answer == lower(strip(typed, Whitespace))
         IN /\ confirm_current' = answer
            /\ IF current_dir_confirmed(answer)
               THEN pc' = "check_target" /\ UNCHANGED status
               ELSE exit(1, "declined_current_dir")
    /\ UNCHANGED <<metadata, confirm, cwd, target_dir, fs, walkvars,
                   activate_cmd>>

\* the mutant of target_not_empty: an existing directory is never refused
target_not_empty_never(f, dir) == FALSE

\* line 200: target_dir.exists() and any(target_dir.iterdir())
target_not_empty(f, dir) == exists(f, dir) /\ listdir(f, dir) # {}

\* lines 199-204: refuse a populated target, create a missing one
CheckTarget ==
    /\ pc = "check_target"
    /\ IF is_file(fs, target_dir)
       THEN uncaught("NotADirectoryError") /\ UNCHANGED fs
       ELSE IF target_not_empty(fs, target_dir)
       THEN exit(1, "target_not_empty") /\ UNCHANGED fs
       ELSE /\ fs' = IF exists(fs, target_dir) THEN fs
                     ELSE makedirs(fs, target_dir)
            /\ pc' = "copy"
            /\ UNCHANGED status
    /\ UNCHANGED <<metadata, confirm, cwd, target_dir, confirm_current,
                   walkvars, activate_cmd>>

\* lines 206-217: the tree copy, unless the target is the template root;
\* os.scandir lists the template root in any order
CopyTemplate ==
    /\ pc = "copy"
    /\ IF target_dir # TEMPLATE_DIR
       THEN \E order \in permutations(listdir(fs, TEMPLATE_DIR)) :
              LET copied == copytree(fs, TEMPLATE_DIR, target_dir, order,
                                     IGNORE_PATTERNS, TRUE)
              IN /\ fs' = copied.fs
                 /\ IF copied.err
                    THEN uncaught("shutil.Error")
                    ELSE pc' = "fix_src_layout" /\ UNCHANGED status
       ELSE /\ pc' = "fix_src_layout"
            /\ UNCHANGED <<fs, status>>
    /\ UNCHANGED <<metadata, confirm, cwd, target_dir, confirm_current,
                   walkvars, activate_cmd>>

\* the mutant of fix_src_layout: no check that the module directory exists
fix_src_layout_unguarded(f, dir, module) ==
    LET src_dir == Append(dir, SRC)
        template_src == TEMPLATE_DIR \o <<SRC, TOK_MODULE_NAME>>
        new_module_dir == Append(src_dir, module)
        old_template_dir == Append(src_dir, TOK_MODULE_NAME)
        copied == copytree(makedirs(f, src_dir), template_src, new_module_dir,
                           <<>>, {}, FALSE)
    IN IF copied.err THEN copied
       ELSE [err |-> FALSE,
             fs |-> IF exists(copied.fs, old_template_dir)
                    THEN rmtree(copied.fs, old_template_dir)
                    ELSE copied.fs]

\* lines 147-157: the result is [err, fs], err when copytree raises
fix_src_layout(f, dir, module) ==
    LET src_dir == Append(dir, SRC)
        template_src == TEMPLATE_DIR \o <<SRC, TOK_MODULE_NAME>>
        new_module_dir == Append(src_dir, module)
        old_template_dir == Append(src_dir, TOK_MODULE_NAME)
    IN IF ~exists(f, new_module_dir)
       THEN LET copied == copytree(makedirs(f, src_dir), template_src,
                                   new_module_dir, <<>>, {}, FALSE)
            IN IF copied.err THEN copied
               ELSE [err |-> FALSE,
                     fs |-> IF exists(copied.fs, old_template_dir)
                            THEN rmtree(copied.fs, old_template_dir)
                            ELSE copied.fs]
       ELSE [err |-> FALSE, fs |-> f]

\* the triples of a walk as the paths the loop body handles, in its order:
\* the files of each root, then its directories (lines 54-73)
RECURSIVE entries_of(_)
entries_of(triples) ==
    IF triples = <<>> THEN <<>>
    ELSE LET t == Head(triples)
         IN [i \in DOMAIN t.files |-> Append(t.root, t.files[i])]
                \o [i \in DOMAIN t.dirs |-> Append(t.root, t.dirs[i])]
                \o entries_of(Tail(triples))

\* the mutant of rename_order: os.walk with its default, topdown=True
rename_order_topdown(f, base_path) == entries_of(walk(f, base_path, TRUE))

\* line 50: os.walk(base_path, topdown=False)
rename_order(f, base_path) == entries_of(walk(f, base_path, FALSE))

\* lines 219-224: fix_src_layout, then rename_paths starts its walk
FixSrcLayout ==
    /\ pc = "fix_src_layout"
    /\ LET fixed == fix_src_layout(fs, target_dir, module_name)
       IN /\ fs' = fixed.fs
          /\ IF fixed.err
             THEN uncaught("shutil.Error") /\ UNCHANGED todo
             ELSE /\ pc' = "rename_paths"
                  /\ todo' = rename_order(fixed.fs, target_dir)
                  /\ UNCHANGED status
    /\ UNCHANGED <<metadata, confirm, cwd, target_dir, confirm_current,
                   fs_renamed, visited, warned, activate_cmd>>

\* lines 54-62 and 65-73: one file or directory of the walk, renamed when
\* the replacements change its name
RenameEntry ==
    /\ pc = "rename_paths"
    /\ todo # <<>>
    /\ LET old_path == Head(todo)
           new_name == apply_replacements(name_of(old_path), replacements)
           new_path == Append(parent(old_path), new_name)
       IN IF new_name # name_of(old_path)
          THEN \E renamed \in rename_outcomes(fs, old_path, new_path) :
                 /\ fs' = renamed.fs
                 /\ IF renamed.err
                    THEN uncaught("OSError")
                    ELSE UNCHANGED <<pc, status>>
          ELSE UNCHANGED <<fs, pc, status>>
    /\ visited' = visited \cup {Head(todo)}
    /\ todo' = Tail(todo)
    /\ UNCHANGED <<metadata, confirm, cwd, target_dir, confirm_current,
                   fs_renamed, warned, activate_cmd>>

\* line 231: the allow-list of extensions
ALLOWED_SUFFIXES ==
    { <<".","p","y">>, <<".","m","d">>, <<".","t","x","t">>,
      <<".","t","o","m","l">>, <<".","y","m","l">>, <<".","y","a","m","l">> }

\* lines 228-230: the files os.walk(target_dir) yields
files_of(f, dir) ==
    LET triples == walk(f, dir, TRUE)
        RECURSIVE files(_)
        files(ts) ==
            IF ts = <<>> THEN <<>>
            ELSE [i \in DOMAIN Head(ts).files |->
                      Append(Head(ts).root, Head(ts).files[i])]
                     \o files(Tail(ts))
    IN files(triples)

\* lines 224-228: rename_paths has returned; the content walk starts
StartSubstitution ==
    /\ pc = "rename_paths"
    /\ todo = <<>>
    /\ pc' = "substitute"
    /\ fs_renamed' = fs
    /\ todo' = files_of(fs, target_dir)
    /\ UNCHANGED <<metadata, confirm, cwd, target_dir, confirm_current, fs,
                   visited, warned, activate_cmd, status>>

\* the mutant of replace_in_file: no try/except around the read and write
replace_in_file_uncaught(f, file_path, repl, may_fail) ==
    {[fs |-> [f EXCEPT ![file_path].content = apply_replacements(@, repl)],
      warning |-> FALSE, raised |-> FALSE]}
    \cup (IF may_fail
          THEN {[fs |-> f, warning |-> FALSE, raised |-> TRUE]}
          ELSE {})

(* lines 37-45: the outcomes of replace_in_file, each [fs, warning,        *)
(* raised].  read_text can fail (a decoding or permission error) and       *)
(* leaves the file as it was; write_text can fail before it opens the file *)
(* or after it has truncated it.  may_fail says whether an I/O error is    *)
(* injected into this call.                                                *)
replace_in_file(f, file_path, repl, may_fail) ==
    {[fs |-> [f EXCEPT ![file_path].content = apply_replacements(@, repl)],
      warning |-> FALSE, raised |-> FALSE]}
    \cup (IF may_fail
          THEN {[fs |-> f, warning |-> TRUE, raised |-> FALSE],
                [fs |-> [f EXCEPT ![file_path].content = <<>>],
                 warning |-> TRUE, raised |-> FALSE]}
          ELSE {})

\* line 231: file_path.suffix in [".py", ".md", ".txt", ".toml", ".yml", ".yaml"]
is_allowed(file_path) == suffix(name_of(file_path)) \in ALLOWED_SUFFIXES

\* lines 229-232: one file of the content walk
SubstituteFile ==
    /\ pc = "substitute"
    /\ todo # <<>>
    /\ LET file_path == Head(todo)
       IN IF is_allowed(file_path)
          THEN \E may_fail \in {FALSE, Cardinality(warned) < MaxFaults} :
               \E done \in replace_in_file(fs, file_path, replacements, may_fail) :
                 /\ fs' = done.fs
                 /\ warned' = IF done.warning THEN warned \cup {file_path}
                              ELSE warned
                 /\ IF done.raised
                    THEN uncaught("replace_in_file")
                    ELSE UNCHANGED <<pc, status>>
          ELSE UNCHANGED <<fs, warned, pc, status>>
    /\ todo' = Tail(todo)
    /\ UNCHANGED <<metadata, confirm, cwd, target_dir, confirm_current,
                   fs_renamed, visited, activate_cmd>>

\* lines 234-235: the walk is over, the success message is printed
FinishSubstitution ==
    /\ pc = "substitute"
    /\ todo = <<>>
    /\ pc' = "ask_venv"
    /\ UNCHANGED <<metadata, confirm, cwd, target_dir, confirm_current, fs,
                   walkvars, activate_cmd, status>>

\* lines 238-243 and 317-327: the offer to set up a virtual environment
AskVenv ==
    /\ pc = "ask_venv"
    /\ \E typed \in ANSWERS :
         LET setup_venv == lower(strip(typed, Whitespace))
         IN IF setup_venv \in {<<>>, <<"y">>, YES}
            THEN pc' = "create_venv" /\ UNCHANGED status
            ELSE finish
    /\ UNCHANGED <<metadata, confirm, cwd, target_dir, confirm_current, fs,
                   walkvars, activate_cmd>>

\* lines 305-313: the handler of subprocess.CalledProcessError reads
\* activate_cmd, a local bound only at lines 262/265
on_called_process_error(cmd) ==
    IF cmd = "unbound" THEN uncaught("UnboundLocalError") ELSE finish

\* lines 314-316: the handler of every other exception
on_exception == finish

\* lines 260-265: sys.platform decides the interpreter's place and the command
venv_python(dir, platform) ==
    IF platform = "win32"
    THEN dir \o <<VENV, <<"S","c","r","i","p","t","s">>,
                  <<"p","y","t","h","o","n",".","e","x","e">> >>
    ELSE dir \o <<VENV, BIN, PYTHON>>

activate_command(platform) ==
    IF platform = "win32" THEN "venv\\Scripts\\activate"
    ELSE "source venv/bin/activate"

\* what `python -m venv venv` leaves in dir when it succeeds
with_venv(f, dir, platform, has_python) ==
    LET made == makedirs(f, parent(venv_python(dir, platform)))
    IN IF has_python
       THEN [q \in DOMAIN made \cup {venv_python(dir, platform)} |->
                IF q = venv_python(dir, platform) THEN File(<<>>) ELSE made[q]]
       ELSE made

\* lines 249-270: remove an old venv, create the new one, find its python
CreateVenv ==
    /\ pc = "create_venv"
    /\ LET venv_path == Append(target_dir, VENV)
       IN \E rmtree_ok \in BOOLEAN,
             platform \in {"linux", "win32"},
             run \in {"ok", "no_python", "CalledProcessError", "OSError"} :
            IF exists(fs, venv_path) /\ ~rmtree_ok
            THEN on_exception /\ UNCHANGED <<fs, activate_cmd>>
            ELSE LET cleared == IF exists(fs, venv_path)
                                THEN rmtree(fs, venv_path) ELSE fs
                 IN CASE run = "CalledProcessError" ->
                           /\ fs' = cleared
                           /\ on_called_process_error(activate_cmd)
                           /\ UNCHANGED activate_cmd
                      [] run = "OSError" ->
                           /\ fs' = cleared
                           /\ on_exception
                           /\ UNCHANGED activate_cmd
                      [] run = "no_python" ->
                           /\ fs' = with_venv(cleared, target_dir, platform, FALSE)
                           /\ activate_cmd' = activate_command(platform)
                           /\ on_exception
                      [] OTHER ->
                           /\ fs' = with_venv(cleared, target_dir, platform, TRUE)
                           /\ activate_cmd' = activate_command(platform)
                           /\ pc' = "install"
                           /\ UNCHANGED status
    /\ UNCHANGED <<metadata, confirm, cwd, target_dir, confirm_current,
                   walkvars>>

\* lines 271-283: upgrade pip, install the package in development mode
InstallPackage ==
    /\ pc = "install"
    /\ \E run \in {"ok", "CalledProcessError", "OSError"} :
         CASE run = "CalledProcessError" -> on_called_process_error(activate_cmd)
           [] run = "OSError" -> on_exception
           [] OTHER -> pc' = "hello_world" /\ UNCHANGED status
    /\ UNCHANGED <<metadata, confirm, cwd, target_dir, confirm_current, fs,
                   walkvars, activate_cmd>>

\* lines 284-304 and 327: the optional Hello World test; input() and
\* subprocess.run can raise, a failing test is only reported
HelloWorldTest ==
    /\ pc = "hello_world"
    /\ \E typed \in ANSWERS, run \in {"passed", "failed", "OSError"} :
         LET test_hello == lower(strip(typed, Whitespace))
         IN IF test_hello \in {<<>>, <<"y">>, YES} /\ run = "OSError"
            THEN on_exception
            ELSE finish
    /\ UNCHANGED <<metadata, confirm, cwd, target_dir, confirm_current, fs,
                   walkvars, activate_cmd>>

----------------------------------------------------------------------------
(* Specifications.                                                         *)

Next ==
    \/ AskProjectName(PIPELINE_NAMES)
    \/ AskDescription
    \/ AskAuthorName
    \/ AskAuthorEmail
    \/ AskGithubUsername
    \/ ConfirmSetup
    \/ AskTargetDir
    \/ ConfirmCurrentDir
    \/ CheckTarget
    \/ CopyTemplate
    \/ FixSrcLayout
    \/ RenameEntry
    \/ StartSubstitution
    \/ SubstituteFile
    \/ FinishSubstitution
    \/ AskVenv
    \/ CreateVenv
    \/ InstallPackage
    \/ HelloWorldTest

\* the whole run of setup_project()
Spec == Init /\ [][Next]_vars

\* the project-name loop alone, over every name up to MaxNameLen characters
NextName == AskProjectName(ALL_NAMES)

SpecName == Init /\ [][NextName]_vars

\* one turn of the loop over the files of the content walk, whatever
\* replace_in_file does to the file: the loop goes on to the next file
next_file ==
    /\ pc = "substitute"
    /\ todo # <<>>
    /\ todo' = Tail(todo)

\* the whole run, with the script going on by itself from one file of the
\* content walk to the next and to the success message: these steps wait
\* for no input
SpecWalk ==
    Spec /\ WF_todo(next_file) /\ WF_vars(FinishSubstitution)

----------------------------------------------------------------------------
(* Properties.                                                             *)

\* the paths strictly below dir
below(f, dir) == { p \in DOMAIN f : is_within(p, dir) /\ p # dir }

has_token(text) == \E token \in TOKENS : contains(text, token)

has_listed_extension(p) ==
    suffix(name_of(p)) \in
        { <<".","p","y">>, <<".","m","d">>, <<".","t","x","t">>,
          <<".","t","o","m","l">>, <<".","y","m","l">>, <<".","y","a","m","l">> }

\* C1: when the resolved target directory exists and holds at least one
\* entry, nothing is ever written to the filesystem, the run goes no
\* further than the check of the target, and it ends with a non-zero status.
C1_PopulatedTargetRefused ==
    (target_dir # NO_PATH /\ below(InitialFs, target_dir) # {}) =>
        /\ fs = InitialFs
        /\ pc \in {"confirm_current", "check_target", "exited"}
        /\ pc = "exited" => status.code # 0

C1_Witness ==
    /\ pc = "exited"
    /\ target_dir = FULL_DIR
    /\ status = [code |-> 1, cause |-> "target_not_empty", at |-> "check_target"]
    /\ fs[Append(FULL_DIR, KEEP)] = InitialFs[Append(FULL_DIR, KEEP)]

\* C2: once rename_paths and the content walk have both completed (here
\* with no file skipped for an I/O error), no name under the target holds a
\* placeholder token and no file with a listed extension holds one in its
\* content, whatever metadata the operator entered.
C2_NoTokenRemains ==
    (pc = "ask_venv" /\ warned = {}) =>
        \A p \in below(fs, target_dir) :
            /\ ~has_token(name_of(p))
            /\ (is_file(fs, p) /\ has_listed_extension(p)) =>
                   ~has_token(fs[p].content)

\* C3: once materialization has completed, no failure of the bootstrap
\* stage ends the process with a non-zero status or an uncaught exception.
C3_BootstrapFailureNotFatal ==
    (pc = "exited" /\ status.at \in {"create_venv", "install", "hello_world"}) =>
        status.code = 0 /\ status.cause = "completed"

\* the tree below dir: relative path, kind and content of every entry
tree(f, dir) ==
    { [rel |-> SubSeq(p, Len(dir) + 1, Len(p)), node |-> f[p]] :
          p \in below(f, dir) }

\* C4: when the target differs from the template root, after the copy step
\* the target holds exactly the template root's entries that are not
\* excluded, at the same relative paths, and nothing else.
C4_TargetMirrorsTemplate ==
    (pc = "fix_src_layout" /\ target_dir # TEMPLATE_DIR) =>
        tree(fs, target_dir) =
            { e \in tree(InitialFs, TEMPLATE_DIR) :
                  Range(e.rel) \cap IGNORE_PATTERNS = {} }

\* C5: for every accepted project name the module identifier holds only
\* lowercase letters, digits and underscores, never two underscores in a
\* row, and neither starts nor ends with one; "demo-app" gives "demo_app".
C5_ModuleNameWellFormed ==
    project_name # UNSET =>
        /\ valid_project_name(project_name)
        /\ module_name # <<>>
        /\ \A i \in DOMAIN module_name :
               module_name[i] \in Lowercase \cup Digits \cup {"_"}
        /\ \A i \in 1..(Len(module_name) - 1) :
               ~(module_name[i] = "_" /\ module_name[i + 1] = "_")
        /\ module_name[1] # "_"
        /\ module_name[Len(module_name)] # "_"
        /\ project_name = DEMO_APP =>
               module_name = <<"d","e","m","o","_","a","p","p">>

C5_Witness ==
    /\ project_name = <<"a","-","_","B">>
    /\ module_name = <<"a","_","b">>

\* C6, as claimed: declining either confirmation ends the run with a
\* non-zero exit status.
C6_DeclineExitsNonZero ==
    (pc = "exited" /\ status.cause \in {"cancelled", "declined_current_dir"}) =>
        status.code # 0

\* C6, amended: declining the summary confirmation ends the run at once
\* with exit status 0, declining the current-directory confirmation ends it
\* at once with exit status 1; in both cases nothing has been written and
\* no later phase runs.
C6_DeclineEndsRun ==
    /\ (confirm # NO_ANSWER /\ confirm \notin {<<"y">>, YES}) =>
           /\ pc = "exited"
           /\ status = [code |-> 0, cause |-> "cancelled", at |-> "confirm"]
           /\ target_dir = NO_PATH
           /\ fs = InitialFs
    /\ (confirm_current # NO_ANSWER /\ confirm_current # YES) =>
           /\ pc = "exited"
           /\ status = [code |-> 1, cause |-> "declined_current_dir",
                        at |-> "confirm_current"]
           /\ fs = InitialFs

C6_Witness ==
    /\ pc = "exited"
    /\ confirm = <<"n">>
    /\ status.code = 0

\* C7: when the target is the current directory and the template root, and
\* the operator answers "yes", the run is not aborted at the check of the
\* target: it goes on in place.
C7_InPlaceRunProceeds ==
    (target_dir = TEMPLATE_DIR /\ cwd = TEMPLATE_DIR /\ confirm_current = YES) =>
        ~(pc = "exited" /\ status.at = "check_target")

\* C8: fix_src_layout run again on the state its first run produced raises
\* nothing and changes nothing; after the first run <target>/src/<module>
\* exists and <target>/src/{{MODULE_NAME}} does not.
C8_FixSrcLayoutIdempotent ==
    (pc = "rename_paths" /\ visited = {}) =>
        LET again == fix_src_layout(fs, target_dir, module_name)
        IN /\ ~again.err
           /\ again.fs = fs
           /\ is_dir(fs, target_dir \o <<SRC, module_name>>)
           /\ ~exists(fs, target_dir \o <<SRC, TOK_MODULE_NAME>>)

C8_Witness ==
    /\ pc = "rename_paths"
    /\ visited = {}
    /\ is_file(fs, target_dir \o <<SRC, module_name, INIT_PY>>)

\* what the content walk has done so far: it has not ended the run; every
\* file with a listed extension that it has passed without a warning holds
\* its content with the replacements applied, and a file with any other
\* extension is as rename_paths left it
walk_tolerant ==
    /\ ~(pc = "exited" /\ status.at = "substitute")
    /\ fs_renamed # <<>> =>
           \A p \in below(fs_renamed, target_dir) \ Range(todo) :
               is_file(fs_renamed, p) =>
                   IF has_listed_extension(p)
                   THEN p \in warned \/
                            fs[p].content =
                                apply_replacements(fs_renamed[p].content,
                                                   replacements)
                   ELSE fs[p] = fs_renamed[p]

\* C9: an I/O error on one file of the content walk is caught and never
\* ends the walk or the run: every other file with a listed extension has
\* the replacements applied to its content, a file with any other extension
\* is never rewritten, and the walk always reaches the success message.
C9_FileErrorsTolerated ==
    /\ []walk_tolerant
    /\ (pc = "substitute") ~> (pc = "ask_venv")

C9_Witness ==
    /\ pc = "ask_venv"
    /\ warned = {Append(target_dir, README)}
    /\ ~has_token(fs[target_dir \o <<SRC, module_name, INIT_PY>>].content)
    /\ fs[Append(target_dir, MAKEFILE)].content = TOK_MODULE_NAME

\* C10: every entry rename_paths comes to exists at that moment, nothing
\* below it is still to be visited, and while rename_paths runs no file
\* content has been substituted.
C10_RenameBottomUp ==
    pc = "rename_paths" =>
        /\ fs_renamed = <<>>
        /\ warned = {}
        /\ todo # <<>> =>
               /\ exists(fs, Head(todo))
               /\ \A i \in 2..Len(todo) : ~is_within(todo[i], Head(todo))
               /\ \A q \in visited : exists(fs, q) => ~is_within(Head(todo), q)

C10_Witness ==
    /\ pc = "rename_paths"
    /\ todo # <<>>
    /\ name_of(Head(todo)) = TOK_MODULE_NAME
    /\ \E q \in visited : is_within(q, Head(todo))

====
